---- MODULE Spec2Model ----
(***************************************************************************)
(* HomeWindow (src/src/HomeWindow.cpp): a form with two checkable mode     *)
(* buttons held in an exclusive QButtonGroup, two line edits and a Begin   *)
(* button.  The state is the checked flag and the style sheet of the two   *)
(* mode buttons, the group's checked button, the text of the two line      *)
(* edits and the window style sheet.                                       *)
(***************************************************************************)
EXTENDS Naturals, Sequences, FiniteSets, TLC

VARIABLES
  researcherChecked,  \* researcherButton_->isChecked()
  adminChecked,       \* adminButton_->isChecked()
  checkedButton,      \* modeGroup->checkedButton(): "none", "researcher", "admin"
  researcherStyle,    \* researcherButton_->styleSheet()
  adminStyle,         \* adminButton_->styleSheet()
  userText,           \* userEdit_->text()
  outputDirText,      \* outputDirEdit_->text()
  styleSheet,         \* the window's own style sheet
  platformDownloads,  \* QStandardPaths::writableLocation(DownloadLocation)
  homePath,           \* QDir::homePath()
  received,           \* what the downstream collaborator has been handed
  lastEvent,          \* the event handled last
  prevEvent,          \* the event handled before it
  lastSelection       \* the mode slot that ran last

vars == <<researcherChecked, adminChecked, checkedButton, researcherStyle,
          adminStyle, userText, outputDirText, styleSheet, platformDownloads,
          homePath, received, lastEvent, prevEvent, lastSelection>>

-----------------------------------------------------------------------------
(* Inputs *)

\* How many of the candidate texts a user may put into a line edit.
NumTexts == 3

TextList == <<"", "alice", "/tmp/out", "bob", "/data">>

Texts == {TextList[i] : i \in 1..NumTexts}

\* What the platform may report as the downloads location; "" is "none".
DownloadLocations == {"", "/home/u/Downloads", "/mnt/dl"}

HomePaths == {"/home/u", "/root"}

-----------------------------------------------------------------------------
(* Style sheets, by the two declarations in which they differ *)

ResearcherActiveStyle == [background |-> "#84F28A", color |-> "#000000"]

AdminActiveStyle == [background |-> "#F26565", color |-> "#000000"]

NeutralStyle == [background |-> "#d9d9d9", color |-> "#111111"]

NoStyle == [background |-> "", color |-> ""]

WindowStyle == "QMainWindow { background: #000000; } ..."

-----------------------------------------------------------------------------
(* The window as one value *)

Window ==
  [researcherChecked |-> researcherChecked,
   adminChecked      |-> adminChecked,
   checkedButton     |-> checkedButton,
   researcherStyle   |-> researcherStyle,
   adminStyle        |-> adminStyle,
   userText          |-> userText,
   outputDirText     |-> outputDirText,
   styleSheet        |-> styleSheet]

Becomes(w) ==
  /\ researcherChecked' = w.researcherChecked
  /\ adminChecked' = w.adminChecked
  /\ checkedButton' = w.checkedButton
  /\ researcherStyle' = w.researcherStyle
  /\ adminStyle' = w.adminStyle
  /\ userText' = w.userText
  /\ outputDirText' = w.outputDirText
  /\ styleSheet' = w.styleSheet

Other(b) == IF b = "researcher" THEN "admin" ELSE "researcher"

IsChecked(w, b) == IF b = "researcher" THEN w.researcherChecked ELSE w.adminChecked

WithChecked(w, b, c) ==
  IF b = "researcher" THEN [w EXCEPT !.researcherChecked = c]
                      ELSE [w EXCEPT !.adminChecked = c]

-----------------------------------------------------------------------------
(* The button group *)

\* The group left non-exclusive
modeGroupNotExclusive == FALSE

\* modeGroup->setExclusive(true)
modeGroupExclusive == TRUE

\* QButtonGroupPrivate::detectCheckedButton, run while b is being unchecked
detectCheckedButton(w, b) ==
  IF modeGroupExclusive THEN "none"
  ELSE IF IsChecked(w, Other(b)) THEN Other(b) ELSE "none"

RECURSIVE setChecked(_, _, _)

\* QAbstractButton::setChecked on a button of modeGroup
setChecked(w, b, c) ==
  IF IsChecked(w, b) = c THEN w
  ELSE IF ~c /\ w.checkedButton = b /\ modeGroupExclusive
    THEN w   \* the checked button of an exclusive group cannot be unchecked
  ELSE IF ~c
    THEN [WithChecked(w, b, FALSE) EXCEPT !.checkedButton =
            IF w.checkedButton = b THEN detectCheckedButton(w, b)
                                   ELSE w.checkedButton]
  ELSE LET previous == w.checkedButton
           w1 == [WithChecked(w, b, TRUE) EXCEPT !.checkedButton = b]
       IN  IF modeGroupExclusive /\ previous # "none" /\ previous # b
             THEN setChecked(w1, previous, ~IsChecked(w1, previous))
             ELSE w1

\* QAbstractButton::nextCheckState of a checkable button
nextCheckState(w, b) == setChecked(w, b, ~IsChecked(w, b))

-----------------------------------------------------------------------------
(* HomeWindow *)

\* setModeResearcher without the reset of the Admin button's style
setModeResearcherKeepsAdminStyle(w) ==
  [setChecked(w, "researcher", TRUE) EXCEPT
     !.researcherStyle = ResearcherActiveStyle]

setModeResearcher(w) ==
  [setChecked(w, "researcher", TRUE) EXCEPT
     !.researcherStyle = ResearcherActiveStyle,
     !.adminStyle = NeutralStyle]

\* setModeAdmin that also clears the output directory
setModeAdminClearsDir(w) ==
  [setChecked(w, "admin", TRUE) EXCEPT
     !.adminStyle = AdminActiveStyle,
     !.researcherStyle = NeutralStyle,
     !.outputDirText = ""]

\* setModeAdmin without the reset of the Researcher button's style
setModeAdminKeepsResearcherStyle(w) ==
  [setChecked(w, "admin", TRUE) EXCEPT
     !.adminStyle = AdminActiveStyle]

\* setModeAdmin that checks the Researcher button
setModeAdminChecksResearcher(w) ==
  [setChecked(w, "researcher", TRUE) EXCEPT
     !.adminStyle = AdminActiveStyle,
     !.researcherStyle = NeutralStyle]

\* setModeAdmin that picks the Admin style from the check state it finds
setModeAdminStaleStyle(w) ==
  [setChecked(w, "admin", TRUE) EXCEPT
     !.adminStyle = IF w.adminChecked THEN AdminActiveStyle ELSE NeutralStyle,
     !.researcherStyle = NeutralStyle]

setModeAdmin(w) ==
  [setChecked(w, "admin", TRUE) EXCEPT
     !.adminStyle = AdminActiveStyle,
     !.researcherStyle = NeutralStyle]

\* The fallback without the Downloads component
DefaultOutputDirHomeOnly(downloads, home) ==
  IF downloads = "" THEN home ELSE downloads

\* The downloads location with its fallback
DefaultOutputDir(downloads, home) ==
  IF downloads = "" THEN home \o "/Downloads" ELSE downloads

\* The widgets as setupUi creates them, before its last three statements
NewWidgets(downloads, home) ==
  [researcherChecked |-> FALSE,
   adminChecked      |-> FALSE,
   checkedButton     |-> "none",
   researcherStyle   |-> NoStyle,
   adminStyle        |-> NoStyle,
   userText          |-> "",
   outputDirText     |-> DefaultOutputDir(downloads, home),
   styleSheet        |-> ""]

\* setupUi that starts in Admin mode
setupUiAdminFirst(downloads, home) ==
  setModeAdmin(setChecked(NewWidgets(downloads, home), "admin", TRUE))

setupUi(downloads, home) ==
  setModeResearcher(setChecked(NewWidgets(downloads, home), "researcher", TRUE))

applyStyles(w) == [w EXCEPT !.styleSheet = WindowStyle]

\* The constructor
HomeWindow(downloads, home) == applyStyles(setupUi(downloads, home))

-----------------------------------------------------------------------------
(* Events *)

\* A click on a mode button: the toolkit moves the check, then the slot runs
clickResearcher(w) == setModeResearcher(nextCheckState(w, "researcher"))

clickAdmin(w) == setModeAdmin(nextCheckState(w, "admin"))

\* Begin wired to the Admin slot
clickBeginWiredToAdmin(w) == setModeAdmin(w)

\* beginButton_ is not checkable and has no slot connected
clickBegin(w) == w

\* What the collaborator holds after a click on Begin
receivedAfterBegin(r, w) == r

editUser(w, t) == [w EXCEPT !.userText = t]

editOutputDir(w, t) == [w EXCEPT !.outputDirText = t]

Init ==
  /\ platformDownloads \in DownloadLocations
  /\ homePath \in HomePaths
  /\ LET w == HomeWindow(platformDownloads, homePath)
     IN  /\ researcherChecked = w.researcherChecked
         /\ adminChecked = w.adminChecked
         /\ checkedButton = w.checkedButton
         /\ researcherStyle = w.researcherStyle
         /\ adminStyle = w.adminStyle
         /\ userText = w.userText
         /\ outputDirText = w.outputDirText
         /\ styleSheet = w.styleSheet
  /\ received = <<>>
  /\ lastEvent = "constructed"
  /\ prevEvent = "none"
  /\ lastSelection = "researcher"

ClickResearcher ==
  /\ Becomes(clickResearcher(Window))
  /\ lastEvent' = "clickResearcher"
  /\ prevEvent' = lastEvent
  /\ lastSelection' = "researcher"
  /\ UNCHANGED <<platformDownloads, homePath, received>>

ClickAdmin ==
  /\ Becomes(clickAdmin(Window))
  /\ lastEvent' = "clickAdmin"
  /\ prevEvent' = lastEvent
  /\ lastSelection' = "admin"
  /\ UNCHANGED <<platformDownloads, homePath, received>>

ClickBegin ==
  /\ Becomes(clickBegin(Window))
  /\ received' = receivedAfterBegin(received, Window)
  /\ lastEvent' = "clickBegin"
  /\ prevEvent' = lastEvent
  /\ UNCHANGED <<platformDownloads, homePath, lastSelection>>

EditUser ==
  \E t \in Texts :
    /\ Becomes(editUser(Window, t))
    /\ lastEvent' = "editUser"
    /\ prevEvent' = lastEvent
    /\ UNCHANGED <<platformDownloads, homePath, received, lastSelection>>

EditOutputDir ==
  \E t \in Texts :
    /\ Becomes(editOutputDir(Window, t))
    /\ lastEvent' = "editOutputDir"
    /\ prevEvent' = lastEvent
    /\ UNCHANGED <<platformDownloads, homePath, received, lastSelection>>

Next == ClickResearcher \/ ClickAdmin \/ ClickBegin \/ EditUser \/ EditOutputDir

Spec == Init /\ [][Next]_vars

-----------------------------------------------------------------------------
(* Derived notions *)

Mode ==
  IF researcherChecked /\ ~adminChecked THEN "Researcher"
  ELSE IF adminChecked /\ ~researcherChecked THEN "Admin"
  ELSE "Undefined"

Highlighted(style) == style \in {ResearcherActiveStyle, AdminActiveStyle}

TypeOK ==
  /\ researcherChecked \in BOOLEAN
  /\ adminChecked \in BOOLEAN
  /\ checkedButton \in {"none", "researcher", "admin"}
  /\ researcherStyle \in {ResearcherActiveStyle, NeutralStyle}
  /\ adminStyle \in {AdminActiveStyle, NeutralStyle}
  /\ userText \in Texts
  /\ outputDirText \in Texts \cup {DefaultOutputDir(platformDownloads, homePath)}
  /\ styleSheet = WindowStyle

ModeEvents == {"clickResearcher", "clickAdmin"}

EditEvents == {"editUser", "editOutputDir"}

-----------------------------------------------------------------------------
(* Properties *)

\* C1: after construction and after every mode selection, exactly one of the
\* two mode buttons is checked and exactly one carries a highlight style; the
\* two are never both active and never both inactive.
C1_ExactlyOneActive ==
  /\ researcherChecked # adminChecked
  /\ Highlighted(researcherStyle) # Highlighted(adminStyle)
  /\ ~(researcherChecked /\ Highlighted(researcherStyle)
        /\ adminChecked /\ Highlighted(adminStyle))
  /\ (researcherChecked /\ Highlighted(researcherStyle))
       \/ (adminChecked /\ Highlighted(adminStyle))

\* A selection of Admin followed by a selection of Researcher has been made.
C1_Witness ==
  /\ prevEvent = "clickAdmin"
  /\ lastEvent = "clickResearcher"
  /\ researcherChecked
  /\ ~adminChecked

\* C2: right after construction, before any event, the Researcher button is
\* checked and highlighted and the Admin button is unchecked and neutral.
C2_InitialResearcher ==
  lastEvent = "constructed" =>
    /\ researcherChecked
    /\ researcherStyle = ResearcherActiveStyle
    /\ ~adminChecked
    /\ adminStyle = NeutralStyle

\* The freshly constructed window.
C2_Witness ==
  /\ lastEvent = "constructed"
  /\ prevEvent = "none"
  /\ Mode = "Researcher"
  /\ userText = ""

\* C3: after a click on Begin the collaborator holds, as the last thing it
\* was handed, exactly the current mode, user name and output directory.
C3_SubmitHandsOver ==
  lastEvent = "clickBegin" =>
    /\ received # <<>>
    /\ received[Len(received)] =
         [mode |-> Mode, userName |-> userText, outputDirectory |-> outputDirText]

\* C4: a field edit leaves the checked flags, the group's checked button and
\* both button styles as they were; a mode selection leaves the text of both
\* fields as it was.
C4_Frame ==
  [][/\ lastEvent' \in EditEvents =>
          /\ researcherChecked' = researcherChecked
          /\ adminChecked' = adminChecked
          /\ checkedButton' = checkedButton
          /\ researcherStyle' = researcherStyle
          /\ adminStyle' = adminStyle
     /\ lastEvent' \in ModeEvents =>
          /\ userText' = userText
          /\ outputDirText' = outputDirText]_vars

\* A mode selection made after the output directory was edited away from its
\* default, with the edited text still in place.
C4_Witness ==
  /\ prevEvent = "editOutputDir"
  /\ lastEvent = "clickAdmin"
  /\ outputDirText = "/tmp/out"
  /\ outputDirText # platformDownloads
  /\ Mode = "Admin"

C6_LastSelectionDecides ==
  /\ AdminActiveStyle.background # ResearcherActiveStyle.background
  /\ lastSelection = "admin" =>
       /\ Mode = "Admin"
       /\ adminStyle = AdminActiveStyle
       /\ researcherStyle = NeutralStyle
  /\ lastSelection = "researcher" =>
       /\ Mode = "Researcher"
       /\ researcherStyle = ResearcherActiveStyle
       /\ adminStyle = NeutralStyle

\* Admin selected after Researcher had been selected explicitly.
C6_Witness ==
  /\ prevEvent = "clickResearcher"
  /\ lastEvent = "clickAdmin"
  /\ lastSelection = "admin"
  /\ adminStyle = AdminActiveStyle

\* The form is in one of its two modes with every widget in a defined state.
ValidFormState ==
  /\ TypeOK
  /\ Mode \in {"Researcher", "Admin"}
  /\ checkedButton = (IF researcherChecked THEN "researcher" ELSE "admin")

\* C7: every reachable state is a valid form state in which each operation
\* can be taken, and in which either mode can still be selected.
C7_Total ==
  /\ ValidFormState
  /\ ENABLED ClickResearcher
  /\ ENABLED ClickAdmin
  /\ ENABLED ClickBegin
  /\ ENABLED EditUser
  /\ ENABLED EditOutputDir
  /\ ENABLED (ClickResearcher /\ Mode' = "Researcher")
  /\ ENABLED (ClickAdmin /\ Mode' = "Admin")

\* Begin has been clicked in Admin mode after an edit, and the form goes on.
C7_Witness ==
  /\ lastEvent = "clickBegin"
  /\ prevEvent = "editUser"
  /\ Mode = "Admin"
  /\ ENABLED (ClickResearcher /\ Mode' = "Researcher")

\* C8: a step that changes the mode is a click on the Admin button in
\* Researcher mode or a click on the Researcher button in Admin mode.
C8_ModeChangesOnlyBySelection ==
  [][Mode' # Mode =>
       \/ lastEvent' = "clickAdmin" /\ Mode = "Researcher" /\ Mode' = "Admin"
       \/ lastEvent' = "clickResearcher" /\ Mode = "Admin" /\ Mode' = "Researcher"
    ]_vars

\* Admin mode entered by a click on Admin that followed a click on Begin.
C8_Witness ==
  /\ prevEvent = "clickBegin"
  /\ lastEvent = "clickAdmin"
  /\ Mode = "Admin"

\* C9: the checked button carries its highlight style (green for Researcher,
\* red for Admin) and the unchecked button the neutral grey style.
C9_CheckedAgreesWithStyle ==
  /\ researcherChecked <=> researcherStyle = ResearcherActiveStyle
  /\ adminChecked <=> adminStyle = AdminActiveStyle
  /\ ~researcherChecked <=> researcherStyle = NeutralStyle
  /\ ~adminChecked <=> adminStyle = NeutralStyle
  /\ checkedButton = "researcher" <=> researcherChecked
  /\ checkedButton = "admin" <=> adminChecked

\* Admin checked and red, Researcher grey, after a field edit.
C9_Witness ==
  /\ adminChecked
  /\ adminStyle = AdminActiveStyle
  /\ researcherStyle = NeutralStyle
  /\ lastEvent \in EditEvents

\* The button b is checked and highlighted and the other unchecked and neutral.
ActiveIn(w, b) ==
  IF b = "researcher"
    THEN /\ w.researcherChecked /\ w.researcherStyle = ResearcherActiveStyle
         /\ ~w.adminChecked /\ w.adminStyle = NeutralStyle
    ELSE /\ w.adminChecked /\ w.adminStyle = AdminActiveStyle
         /\ ~w.researcherChecked /\ w.researcherStyle = NeutralStyle

\* C10: from every reachable state, clicking a mode button twice, or running
\* its slot twice, gives the state that doing so once gives; a click on the
\* checked button leaves the whole window as it is, that button checked and
\* highlighted and the other unchecked and neutral.
C10_Idempotent ==
  LET w == Window
  IN  /\ clickResearcher(clickResearcher(w)) = clickResearcher(w)
      /\ clickAdmin(clickAdmin(w)) = clickAdmin(w)
      /\ setModeResearcher(setModeResearcher(w)) = setModeResearcher(w)
      /\ setModeAdmin(setModeAdmin(w)) = setModeAdmin(w)
      /\ w.researcherChecked =>
           clickResearcher(w) = w /\ ActiveIn(clickResearcher(w), "researcher")
      /\ w.adminChecked =>
           clickAdmin(w) = w /\ ActiveIn(clickAdmin(w), "admin")

\* The Admin button clicked twice in a row.
C10_Witness ==
  /\ prevEvent = "clickAdmin"
  /\ lastEvent = "clickAdmin"
  /\ ActiveIn(Window, "admin")
====
